---- MODULE Spec2Model ----
(***************************************************************************)
(* SubTracker: the subscription service (src/src/services/subscriptions.ts) *)
(* and its reminder adapter (src/src/services/notifications.ts and the     *)
(* guarded revision src/unnamed/part_000), over a row store and the        *)
(* external notification scheduler.                                        *)
(*                                                                         *)
(* Calendar dates ('yyyy-MM-dd' strings) are day numbers (days since       *)
(* 1970-01-01); instants (JS Date) are hours since the epoch, UTC.  The    *)
(* device's time zone is a fixed offset tz (hours east of UTC).            *)
(***************************************************************************)
EXTENDS Integers, Sequences, FiniteSets, TLC

VARIABLES
    tz,             \* device time zone, hours east of UTC
    now,            \* new Date(): the current instant
    build,          \* which revision of the reminder adapter is linked
    expoGoAndroid,  \* Platform.OS === 'android' && isExpoGo (part_000)
    db,             \* the subscriptions table: id -> row
    scheduled,      \* notifications live in the external scheduler
    lastOp,         \* the service call that completed last, with its calls
    tasks,          \* service calls suspended at an await: task -> frame
    view,           \* what the read-only call made last has returned
    store           \* the state of useSubscriptionStore, held in memory

vars ==
    <<tz, now, build, expoGoAndroid, db, scheduled, lastOp, tasks, view, store>>

-----------------------------------------------------------------------------
(* Bounds *)

MaxSubs == 1
MaxHandles == 3
Horizon == 3

-----------------------------------------------------------------------------
(* The proleptic Gregorian calendar, as the JS Date beneath date-fns has it *)

IsLeap(y) == (y % 4 = 0 /\ y % 100 # 0) \/ y % 400 = 0

DaysInMonth(y, m) ==
    IF m = 2 THEN (IF IsLeap(y) THEN 29 ELSE 28)
    ELSE IF m \in {4, 6, 9, 11} THEN 30 ELSE 31

DaysFromCivil(y, m, d) ==
    LET yy  == IF m <= 2 THEN y - 1 ELSE y
        era == yy \div 400
        yoe == yy - era * 400
        mp  == IF m > 2 THEN m - 3 ELSE m + 9
        doy == (153 * mp + 2) \div 5 + d - 1
        doe == yoe * 365 + yoe \div 4 - yoe \div 100 + doy
    IN  era * 146097 + doe - 719468

CivilFromDays(z) ==
    LET zz  == z + 719468
        era == zz \div 146097
        doe == zz - era * 146097
        yoe == (doe - doe \div 1460 + doe \div 36524 - doe \div 146096) \div 365
        doy == doe - (365 * yoe + yoe \div 4 - yoe \div 100)
        mp  == (5 * doy + 2) \div 153
        d   == doy - (153 * mp + 2) \div 5 + 1
        m   == IF mp < 10 THEN mp + 3 ELSE mp - 9
        y   == yoe + era * 400 + (IF m <= 2 THEN 1 ELSE 0)
    IN  [y |-> y, m |-> m, d |-> d]

-----------------------------------------------------------------------------
(* date-fns and Date, in the device's time zone *)

\* parseISO('yyyy-MM-dd'): a date-only string is read as LOCAL midnight
parseISO(dateStr) == dateStr * 24 - tz

\* date.toISOString().split('T')[0]: the calendar date of the instant in UTC
toISODate(t) == t \div 24

\* startOfDay(t): local midnight of the instant's local day
startOfDay(t) == ((t + tz) \div 24) * 24 - tz

\* the local calendar day of an instant
LocalDay(t) == (t + tz) \div 24

\* a comparison that also holds of equal instants
isBefore_OrEqual(a, b) == a <= b

isBefore(a, b) == a < b

addDays(t, n) == t + 24 * n

subDays(t, n) == addDays(t, 0 - n)

addWeeks(t, n) == addDays(t, 7 * n)

\* addMonths: local fields; the day of month is clamped to the target month
addMonths(t, n) ==
    LET local  == t + tz
        c      == CivilFromDays(local \div 24)
        months == c.y * 12 + (c.m - 1) + n
        y2     == months \div 12
        m2     == (months % 12) + 1
        dim    == DaysInMonth(y2, m2)
        d2     == IF c.d >= dim THEN dim ELSE c.d
    IN  DaysFromCivil(y2, m2, d2) * 24 + (local % 24) - tz

addYears(t, n) == addMonths(t, 12 * n)

-----------------------------------------------------------------------------
(* Date-cycle calculator *)

BillingCycle == {"weekly", "monthly", "quarterly", "yearly"}

\* cycles as fixed numbers of days instead of calendar months and years
getNextBillingDate_FixedDays(currentDate, cycle) ==
    CASE cycle = "weekly"    -> addDays(currentDate, 7)
      [] cycle = "monthly"   -> addDays(currentDate, 30)
      [] cycle = "quarterly" -> addDays(currentDate, 90)
      [] cycle = "yearly"    -> addDays(currentDate, 365)

getNextBillingDate(currentDate, cycle) ==
    CASE cycle = "weekly"    -> addWeeks(currentDate, 1)
      [] cycle = "monthly"   -> addMonths(currentDate, 1)
      [] cycle = "quarterly" -> addMonths(currentDate, 3)
      [] cycle = "yearly"    -> addYears(currentDate, 1)

RECURSIVE AdvanceLoop(_, _, _)
AdvanceLoop(date, today, cycle) ==
    IF isBefore(date, today)
    THEN AdvanceLoop(getNextBillingDate(date, cycle), today, cycle)
    ELSE date

advanceToFuture(dateStr, cycle) ==
    toISODate(AdvanceLoop(parseISO(dateStr), startOfDay(now), cycle))

-----------------------------------------------------------------------------
(* Reminder scheduling adapter *)

\* one call to the external scheduler, as recorded in lastOp.calls
Call(kind, h, off, ok) == [kind |-> kind, h |-> h, off |-> off, ok |-> ok]

\* the adapter's early return: Platform.OS === 'android' && isExpoGo
Unsupported == build = "guarded" /\ expoGoAndroid

\* for (const id of notificationIds) await cancelScheduledNotificationAsync(id);
\* the failAt-th call rejects, which leaves the loop (0: no call rejects)
RECURSIVE CancelLoop(_, _, _, _)
CancelLoop(ids, i, failAt, acc) ==
    IF i > Len(ids) THEN acc
    ELSE IF i = failAt
    THEN [acc EXCEPT !.calls = Append(@, Call("cancel", ids[i], 0, FALSE)),
                     !.threw = TRUE]
    ELSE CancelLoop(ids, i + 1, failAt,
            [acc EXCEPT !.live  = {n \in @ : n.h # ids[i]},
                        !.calls = Append(@, Call("cancel", ids[i], 0, TRUE))])

\* cancelReminders: notifications.ts lets the rejection out, part_000 wraps
\* the whole loop in try/catch and logs it
cancelReminders(notificationIds, failAt, live) ==
    LET start == [live |-> live, calls |-> <<>>, threw |-> FALSE]
    IN  IF Unsupported THEN start
        ELSE LET r == CancelLoop(notificationIds, 1, failAt, start)
             IN  IF build = "guarded" THEN [r EXCEPT !.threw = FALSE] ELSE r

\* the opaque identifier scheduleNotificationAsync resolves to: one that is
\* in use nowhere (used: every handle a row or the scheduler still holds)
NewHandle(used) ==
    CHOOSE h \in 1 .. Cardinality(used) + 1 :
        h \notin used /\ \A k \in 1 .. h - 1 : k \in used

\* for (const daysBefore of subscription.reminderDays) { ... }
RECURSIVE ScheduleLoop(_, _, _, _, _)
ScheduleLoop(id, sub, i, failAt, acc) ==
    IF i > Len(sub.reminderDays) THEN acc
    ELSE LET daysBefore  == sub.reminderDays[i]
             billingDate == parseISO(sub.nextBillingDate)
             triggerDate == subDays(billingDate, daysBefore)
         IN  IF triggerDate > now
             THEN IF i = failAt
                  THEN [acc EXCEPT
                          !.calls = Append(@, Call("schedule", 0, daysBefore, FALSE)),
                          !.threw = TRUE]
                  ELSE LET h == NewHandle(acc.used)
                       IN  ScheduleLoop(id, sub, i + 1, failAt,
                              [acc EXCEPT
                                 !.used  = @ \cup {h},
                                 !.live  = @ \cup {[h |-> h, sub |-> id]},
                                 !.ids   = Append(@, h),
                                 !.calls = Append(@, Call("schedule", h,
                                                          daysBefore, TRUE))])
             ELSE ScheduleLoop(id, sub, i + 1, failAt, acc)

\* scheduleReminders: notifications.ts lets the rejection out, part_000
\* catches it around the whole loop and returns []
scheduleReminders(id, sub, failAt, live, used) ==
    LET start == [live |-> live, used |-> used, ids |-> <<>>, calls |-> <<>>,
                  threw |-> FALSE]
    IN  IF Unsupported THEN start
        ELSE LET r == ScheduleLoop(id, sub, 1, failAt, start)
             IN  IF build = "guarded" /\ r.threw
                 THEN [r EXCEPT !.ids = <<>>, !.threw = FALSE]
                 ELSE r

-----------------------------------------------------------------------------
(* Subscription service over the row store *)

\* INSERT / UPDATE of one row
Put(table, id, row) ==
    [i \in DOMAIN table \cup {id} |-> IF i = id THEN row ELSE table[i]]

\* DELETE FROM subscriptions WHERE id = ?
Remove(table, id) == [i \in DOMAIN table \ {id} |-> table[i]]

\* every handle that a row or the external scheduler holds
HandlesOf(table, live) ==
    {n.h : n \in live}
        \cup UNION {{table[i].notificationIds[k] : k \in DOMAIN table[i].notificationIds} :
                    i \in DOMAIN table}

Used == HandlesOf(db, scheduled)

\* what a service call leaves behind: the table, the external scheduler, and
\* whether the promise resolved (ok) or rejected
Outcome(table, live, ok, calls) ==
    [db |-> table, scheduled |-> live, ok |-> ok, calls |-> calls]

\* the tail shared by create, update and markAsPaid:
\*   const s = await getSubscription(id);
\*   if (s && s.isActive) { ids = await scheduleReminders(s); UPDATE notification_ids }
Reschedule(table, id, failAt, live, calls) ==
    LET row == table[id]
        r   == scheduleReminders(id, row, failAt, live, Used)
    IN  IF ~row.isActive THEN Outcome(table, live, TRUE, calls)
        ELSE IF r.threw
        THEN Outcome(table, r.live, FALSE, calls \o r.calls)
        ELSE Outcome(Put(table, id, [row EXCEPT !.notificationIds = r.ids]),
                     r.live, TRUE, calls \o r.calls)

\* the VALUES of the INSERT: the input's fields as they are, the date
\* advanced, no handles, both timestamps now
NewRow(input) ==
    [name            |-> input.name,
     amount          |-> input.amount,
     currency        |-> input.currency,
     billingCycle    |-> input.billingCycle,
     nextBillingDate |-> advanceToFuture(input.nextBillingDate, input.billingCycle),
     startDate       |-> input.startDate,
     categoryId      |-> input.categoryId,
     notes           |-> input.notes,
     isActive        |-> input.isActive,
     reminderDays    |-> input.reminderDays,
     notificationIds |-> <<>>,
     createdAt       |-> now,
     updatedAt       |-> now]

\* id: the value of Crypto.randomUUID()
createSubscription(id, input, schedFail) ==
    Reschedule(Put(db, id, NewRow(input)), id, schedFail, scheduled, <<>>)

\* the SET list of updateSubscription: only the fields present in updates
\* the columns updateSubscription can set, besides updated_at
Settable ==
    {"name", "amount", "currency", "billingCycle", "nextBillingDate",
     "categoryId", "notes", "isActive", "reminderDays"}

\* the SET list without the `!== undefined` guards: a field the caller left
\* out is written as the value undefined converts to
ApplyUpdates_Unguarded(existing, updates) ==
    [f \in DOMAIN existing |->
        IF f = "updatedAt" THEN now
        ELSE IF f \in Settable /\ f \in DOMAIN updates THEN updates[f]
        ELSE IF f = "isActive" THEN FALSE
        ELSE IF f = "notes" THEN ""
        ELSE existing[f]]

ApplyUpdates(existing, updates) ==
    [f \in DOMAIN existing |->
        IF f = "updatedAt" THEN now
        ELSE IF f \in Settable /\ f \in DOMAIN updates THEN updates[f]
        ELSE existing[f]]

\* updateSubscription without `if (!existing) throw`: the UPDATE matches no
\* row and the call resolves
updateSubscription_NoGuard(id, updates, cancelFail, schedFail) ==
    IF id \notin DOMAIN db
    THEN Outcome(db, scheduled, TRUE, <<>>)
    ELSE LET existing == db[id]
             c == cancelReminders(existing.notificationIds, cancelFail, scheduled)
         IN  IF c.threw THEN Outcome(db, c.live, FALSE, c.calls)
             ELSE Reschedule(Put(db, id, ApplyUpdates(existing, updates)),
                             id, schedFail, c.live, c.calls)

updateSubscription(id, updates, cancelFail, schedFail) ==
    IF id \notin DOMAIN db
    THEN Outcome(db, scheduled, FALSE, <<>>)
    ELSE LET existing == db[id]
             c == cancelReminders(existing.notificationIds, cancelFail, scheduled)
         IN  IF c.threw THEN Outcome(db, c.live, FALSE, c.calls)
             ELSE Reschedule(Put(db, id, ApplyUpdates(existing, updates)),
                             id, schedFail, c.live, c.calls)

deleteSubscription(id, cancelFail) ==
    IF id \notin DOMAIN db
    THEN Outcome(db, scheduled, TRUE, <<>>)
    ELSE LET c == cancelReminders(db[id].notificationIds, cancelFail, scheduled)
         IN  IF c.threw THEN Outcome(db, c.live, FALSE, c.calls)
             ELSE Outcome(Remove(db, id), c.live, TRUE, c.calls)

markAsPaid(id, cancelFail, schedFail) ==
    IF id \notin DOMAIN db
    THEN Outcome(db, scheduled, FALSE, <<>>)
    ELSE LET existing == db[id]
             c == cancelReminders(existing.notificationIds, cancelFail, scheduled)
             currentBillingDate == parseISO(existing.nextBillingDate)
             nextDate == getNextBillingDate(currentBillingDate, existing.billingCycle)
             row == [existing EXCEPT !.nextBillingDate = toISODate(nextDate),
                                     !.updatedAt = now,
                                     !.notificationIds = <<>>]
         IN  IF c.threw THEN Outcome(db, c.live, FALSE, c.calls)
             ELSE Reschedule(Put(db, id, row), id, schedFail, c.live, c.calls)

-----------------------------------------------------------------------------
(* Inputs *)

\* 2025-03-10, the day the runs are anchored on
Day0 == DaysFromCivil(2025, 3, 10)

Jan15 == DaysFromCivil(2025, 1, 15)

TimeZones == {0, 10}

Instants == {Day0 * 24 + 2}

ReminderLists == {<<7, 3, 1>>}

CreateCycles == {"weekly", "monthly"}

CreateDates == {Day0 - 7, Day0 + 2}

CreateInputs ==
    [name : {"Netflix"}, amount : {999}, currency : {"USD"},
     billingCycle : CreateCycles, nextBillingDate : CreateDates,
     startDate : {Day0 - 7}, categoryId : {"streaming"}, notes : {""},
     isActive : BOOLEAN, reminderDays : ReminderLists]

\* Partial<Subscription>: a record holding only the fields that are present
UpdateInputs ==
    { <<>>,
      [isActive |-> FALSE],
      [isActive |-> TRUE],
      [reminderDays |-> <<1>>],
      [nextBillingDate |-> Day0 + 2],
      [billingCycle |-> "monthly", nextBillingDate |-> Jan15] }

\* which call to the external scheduler rejects (0: none)
FailAt == 0 .. 3

Ids == 1 .. MaxSubs

\* local calendar day of "now"
Today == LocalDay(now)

-----------------------------------------------------------------------------
(* State machine *)

Done(op, id, input, o) ==
    /\ Cardinality(HandlesOf(o.db, o.scheduled)) <= MaxHandles
    /\ db' = o.db
    /\ scheduled' = o.scheduled
    /\ lastOp' = [op |-> op, id |-> id, ok |-> o.ok, input |-> input,
                  calls |-> o.calls]
    /\ UNCHANGED <<tz, now, build, expoGoAndroid, store, tasks, view>>

Init ==
    /\ tz \in TimeZones
    /\ now \in Instants
    /\ build \in {"plain", "guarded"}
    /\ expoGoAndroid \in BOOLEAN
    /\ build = "plain" => ~expoGoAndroid
    /\ db = <<>>
    /\ scheduled = {}
    /\ lastOp = [op |-> "none", id |-> 0, ok |-> TRUE, input |-> <<>>,
                 calls |-> <<>>]
    /\ tasks = <<>>
    /\ view = [fn |-> "none"]
    /\ store = [subscriptions |-> <<>>, isLoading |-> FALSE, error |-> ""]

\* an id no row has and no live notification names
FreeIds == Ids \ (DOMAIN db \cup {n.sub : n \in scheduled})

Create ==
    \E input \in CreateInputs, sf \in FailAt :
        /\ FreeIds # {}
        /\ sf <= Len(input.reminderDays)
        /\ LET id == CHOOSE i \in FreeIds : \A j \in FreeIds : i <= j
           IN  Done("create", id, input, createSubscription(id, input, sf))

Update ==
    \E id \in Ids, updates \in UpdateInputs, cf \in FailAt, sf \in FailAt :
        /\ cf = 0 \/ sf = 0
        /\ id \in DOMAIN db => cf <= Len(db[id].notificationIds)
        /\ id \in DOMAIN db => sf <= Len(ApplyUpdates(db[id], updates).reminderDays)
        /\ id \notin DOMAIN db => cf = 0 /\ sf = 0
        /\ Done("update", id, updates, updateSubscription(id, updates, cf, sf))

MarkAsPaid ==
    \E id \in Ids, cf \in FailAt, sf \in FailAt :
        /\ cf = 0 \/ sf = 0
        /\ id \in DOMAIN db => cf <= Len(db[id].notificationIds)
        /\ id \in DOMAIN db => sf <= Len(db[id].reminderDays)
        /\ id \in DOMAIN db => db[id].nextBillingDate <= Today + Horizon
        /\ id \notin DOMAIN db => cf = 0 /\ sf = 0
        /\ Done("markAsPaid", id, <<>>, markAsPaid(id, cf, sf))

Delete ==
    \E id \in Ids, cf \in FailAt :
        /\ id \in DOMAIN db => cf <= Len(db[id].notificationIds)
        /\ id \notin DOMAIN db => cf = 0
        /\ Done("delete", id, <<>>, deleteSubscription(id, cf))

Next == Create \/ Update \/ MarkAsPaid \/ Delete

Spec == Init /\ [][Next]_vars

-----------------------------------------------------------------------------
(* The service called with arbitrary field values, no scheduler failures *)

MaxRows == 2

\* SubscriptionInput as createSubscription accepts it: nothing in the
\* function looks at the name or the amount
DataCreateInputs ==
    [name : {"", "Netflix"}, amount : {-500, 0, 999}, currency : {"USD"},
     billingCycle : {"monthly"}, nextBillingDate : {Day0 + 2},
     startDate : {Day0 + 2}, categoryId : {"streaming"}, notes : {""},
     isActive : {TRUE}, reminderDays : ReminderLists]

\* Partial<Subscription>: may also name fields the SET list never holds
DataUpdateInputs ==
    { [amount |-> 0, startDate |-> Day0, createdAt |-> 0],
      [name |-> "Hulu", currency |-> "EUR", categoryId |-> "music",
       notes |-> "family plan"],
      [isActive |-> FALSE, reminderDays |-> <<1>>],
      [billingCycle |-> "yearly", nextBillingDate |-> Day0 + 3] }

InitData == Init /\ tz = 0 /\ build = "plain"

DataCreate ==
    \E input \in DataCreateInputs :
        LET free == (1 .. MaxRows) \ (DOMAIN db \cup {n.sub : n \in scheduled})
        IN  /\ free # {}
            /\ LET id == CHOOSE i \in free : \A j \in free : i <= j
               IN  Done("create", id, input, createSubscription(id, input, 0))

DataUpdate ==
    \E id \in 1 .. MaxRows, updates \in DataUpdateInputs :
        Done("update", id, updates, updateSubscription(id, updates, 0, 0))

DataDelete ==
    \E id \in 1 .. MaxRows :
        Done("delete", id, <<>>, deleteSubscription(id, 0))

NextData == DataCreate \/ DataUpdate \/ DataDelete

SpecData == InitData /\ [][NextData]_vars

-----------------------------------------------------------------------------
(* The service as the JS runtime runs it: every await is a point where     *)
(* another call may run.  A step is one awaited operation on the store or  *)
(* the external scheduler, together with the synchronous code up to the    *)
(* next await.  No external call fails here.                               *)

MaxTasks == 2

Tasks == 1 .. MaxTasks

Idle == [pc |-> "idle"]

Frame(op, id, pc, arg) ==
    [op |-> op, id |-> id, pc |-> pc, arg |-> arg, existing |-> <<>>,
     updated |-> <<>>, k |-> 0, ids |-> <<>>]

AsyncCreateInputs ==
    {i \in CreateInputs :
        i.isActive /\ i.billingCycle = "monthly" /\ i.nextBillingDate = Day0 + 2}

AsyncUpdateInputs == {[isActive |-> FALSE], [reminderDays |-> <<1>>]}

\* handles held in the local variables of a suspended call
HeldBy(f) ==
    IF f.pc = "idle" THEN {}
    ELSE {f.ids[k] : k \in DOMAIN f.ids}
            \cup (IF f.existing = <<>> THEN {}
                  ELSE {f.existing.notificationIds[k] :
                            k \in DOMAIN f.existing.notificationIds})

AsyncUsed == HandlesOf(db, scheduled) \cup UNION {HeldBy(tasks[t]) : t \in Tasks}

\* ids in use: of a row, of a live notification, or of a suspended call
AsyncFreeIds ==
    Ids \ (DOMAIN db \cup {n.sub : n \in scheduled}
                \cup {tasks[t].id : t \in {u \in Tasks : tasks[u].pc # "idle"}})

\* the first offset from index k on whose trigger is after now (0: none)
NextFuture(sub, k) ==
    LET later == {i \in k .. Len(sub.reminderDays) :
                    subDays(parseISO(sub.nextBillingDate), sub.reminderDays[i]) > now}
    IN  IF later = {} THEN 0 ELSE CHOOSE i \in later : \A j \in later : i <= j

Resume(t, frame) ==
    /\ tasks' = [tasks EXCEPT ![t] = frame]
    /\ UNCHANGED <<tz, now, build, expoGoAndroid, store, lastOp, view>>

\* a call of createSubscription, updateSubscription, markAsPaid or
\* deleteSubscription, up to its first await
Begin(t) ==
    /\ tasks[t].pc = "idle"
    /\ \/ \E input \in AsyncCreateInputs :
            /\ AsyncFreeIds # {}
            /\ Resume(t, Frame("create",
                                CHOOSE i \in AsyncFreeIds : \A j \in AsyncFreeIds : i <= j,
                                "insert", input))
       \/ \E id \in Ids, updates \in AsyncUpdateInputs :
            Resume(t, Frame("update", id, "read", updates))
       \/ \E id \in Ids :
            /\ id \in DOMAIN db => db[id].nextBillingDate <= Today + Horizon
            /\ Resume(t, Frame("markAsPaid", id, "read", <<>>))
       \/ \E id \in Ids : Resume(t, Frame("delete", id, "read", <<>>))
    /\ UNCHANGED <<db, scheduled>>

\* await runSql(INSERT INTO subscriptions ...)
StepInsert(t) ==
    LET f == tasks[t]
    IN  /\ f.pc = "insert"
        /\ db' = Put(db, f.id, NewRow(f.arg))
        /\ UNCHANGED scheduled
        /\ Resume(t, [f EXCEPT !.pc = "reread"])

\* const existing = await getSubscription(id);
\* if (!existing) throw ...   (deleteSubscription: goes on to the DELETE)
StepRead(t) ==
    LET f == tasks[t]
        after == IF f.op = "delete" THEN "delete" ELSE "persist"
    IN  /\ f.pc = "read"
        /\ UNCHANGED <<db, scheduled>>
        /\ IF f.id \notin DOMAIN db
           THEN Resume(t, IF f.op = "delete" THEN [f EXCEPT !.pc = "delete"] ELSE Idle)
           ELSE Resume(t, [f EXCEPT !.existing = db[f.id], !.k = 1,
                                    !.pc = IF db[f.id].notificationIds = <<>>
                                           THEN after ELSE "cancel"])

\* await Notifications.cancelScheduledNotificationAsync(id), one handle
StepCancel(t) ==
    LET f == tasks[t]
        after == IF f.op = "delete" THEN "delete" ELSE "persist"
    IN  /\ f.pc = "cancel"
        /\ scheduled' = {n \in scheduled : n.h # f.existing.notificationIds[f.k]}
        /\ UNCHANGED db
        /\ Resume(t, [f EXCEPT !.k = @ + 1,
                                !.pc = IF f.k = Len(f.existing.notificationIds)
                                       THEN after ELSE "cancel"])

\* await runSql(UPDATE subscriptions SET ... WHERE id = ?): the fields of
\* the row as it is now; markAsPaid's date comes from the row as it was read
StepPersist(t) ==
    LET f == tasks[t]
        paid == toISODate(getNextBillingDate(parseISO(f.existing.nextBillingDate),
                                             f.existing.billingCycle))
    IN  /\ f.pc = "persist"
        /\ db' = IF f.id \notin DOMAIN db THEN db
                 ELSE IF f.op = "update"
                 THEN Put(db, f.id, ApplyUpdates(db[f.id], f.arg))
                 ELSE Put(db, f.id, [db[f.id] EXCEPT !.nextBillingDate = paid,
                                                     !.updatedAt = now,
                                                     !.notificationIds = <<>>])
        /\ UNCHANGED scheduled
        /\ Resume(t, [f EXCEPT !.pc = "reread"])

\* const updated = await getSubscription(id);
\* if (updated && updated.isActive) { ... scheduleReminders(updated) ... }
StepReread(t) ==
    LET f == tasks[t]
    IN  /\ f.pc = "reread"
        /\ UNCHANGED <<db, scheduled>>
        /\ IF f.id \in DOMAIN db /\ db[f.id].isActive
           THEN LET k == NextFuture(db[f.id], 1)
                IN  Resume(t, [f EXCEPT !.updated = db[f.id], !.k = k, !.ids = <<>>,
                                        !.pc = IF k = 0 THEN "store" ELSE "schedule"])
           ELSE Resume(t, Idle)

\* const id = await Notifications.scheduleNotificationAsync(...), one offset
StepSchedule(t) ==
    LET f == tasks[t]
        h == NewHandle(AsyncUsed)
        k == NextFuture(f.updated, f.k + 1)
    IN  /\ f.pc = "schedule"
        /\ Cardinality(AsyncUsed) < MaxHandles
        /\ scheduled' = scheduled \cup {[h |-> h, sub |-> f.id]}
        /\ UNCHANGED db
        /\ Resume(t, [f EXCEPT !.ids = Append(@, h), !.k = k,
                                !.pc = IF k = 0 THEN "store" ELSE "schedule"])

\* await runSql('UPDATE subscriptions SET notification_ids = ? WHERE id = ?')
StepStore(t) ==
    LET f == tasks[t]
    IN  /\ f.pc = "store"
        /\ db' = IF f.id \in DOMAIN db
                 THEN Put(db, f.id, [db[f.id] EXCEPT !.notificationIds = f.ids])
                 ELSE db
        /\ UNCHANGED scheduled
        /\ Resume(t, Idle)

\* await runSql('DELETE FROM subscriptions WHERE id = ?')
StepDelete(t) ==
    LET f == tasks[t]
    IN  /\ f.pc = "delete"
        /\ db' = Remove(db, f.id)
        /\ UNCHANGED scheduled
        /\ Resume(t, Idle)

InitAsync ==
    /\ tz = 0
    /\ now \in Instants
    /\ build = "plain"
    /\ expoGoAndroid = FALSE
    /\ db = <<>>
    /\ scheduled = {}
    /\ lastOp = [op |-> "none", id |-> 0, ok |-> TRUE, input |-> <<>>,
                 calls |-> <<>>]
    /\ tasks = [t \in Tasks |-> Idle]
    /\ view = [fn |-> "none"]
    /\ store = [subscriptions |-> <<>>, isLoading |-> FALSE, error |-> ""]

NextAsync ==
    \E t \in Tasks :
        \/ Begin(t)
        \/ StepInsert(t)
        \/ StepRead(t)
        \/ StepCancel(t)
        \/ StepPersist(t)
        \/ StepReread(t)
        \/ StepSchedule(t)
        \/ StepStore(t)
        \/ StepDelete(t)

SpecAsync == InitAsync /\ [][NextAsync]_vars

-----------------------------------------------------------------------------
(* Aggregation engine: read-only calls over the table *)

\* Amounts are in cents.  Monthly equivalents are exact, in units of 1/1200
\* of a cent, so that * 4.33, / 3 and / 12 stay whole numbers.
Scale == 1200

\* a month taken as four weeks
calculateMonthlyEquivalent_FourWeeks(amount, cycle) ==
    CASE cycle = "weekly"    -> amount * 4 * Scale
      [] cycle = "monthly"   -> amount * Scale
      [] cycle = "quarterly" -> amount * (Scale \div 3)
      [] cycle = "yearly"    -> amount * (Scale \div 12)

calculateMonthlyEquivalent(amount, cycle) ==
    CASE cycle = "weekly"    -> amount * 433 * (Scale \div 100)
      [] cycle = "monthly"   -> amount * Scale
      [] cycle = "quarterly" -> amount * (Scale \div 3)
      [] cycle = "yearly"    -> amount * (Scale \div 12)

\* Math.round(total * 100) / 100, in cents: halves go up
Round2(total) == (total + Scale \div 2) \div Scale

\* ids of the rows in S, ORDER BY next_billing_date ASC (rows of one date in
\* the order of their ids)
RECURSIVE OrderByDate(_, _)
OrderByDate(table, S) ==
    IF S = {} THEN <<>>
    ELSE LET first == CHOOSE i \in S : \A j \in S :
                        \/ table[i].nextBillingDate < table[j].nextBillingDate
                        \/ /\ table[i].nextBillingDate = table[j].nextBillingDate
                           /\ i <= j
         IN  <<first>> \o OrderByDate(table, S \ {first})

\* SELECT * FROM subscriptions WHERE is_active = 1 ORDER BY next_billing_date
getActiveSubscriptions(table) ==
    OrderByDate(table, {i \in DOMAIN table : table[i].isActive})

\* totals[sub.currency] = (totals[sub.currency] || 0) + monthly, the keys in
\* the order they were first set
\* one running total under the first key, whatever the currency
AddTo_OneTotal(totals, currency, monthly) ==
    IF totals = <<>>
    THEN <<[currency |-> currency, total |-> monthly]>>
    ELSE [totals EXCEPT ![1].total = @ + monthly]

AddTo(totals, currency, monthly) ==
    IF \E k \in DOMAIN totals : totals[k].currency = currency
    THEN [k \in DOMAIN totals |->
            IF totals[k].currency = currency
            THEN [totals[k] EXCEPT !.total = @ + monthly] ELSE totals[k]]
    ELSE Append(totals, [currency |-> currency, total |-> monthly])

RECURSIVE MonthlyFold(_, _, _, _)
MonthlyFold(table, subs, k, totals) ==
    IF k > Len(subs) THEN totals
    ELSE LET sub == table[subs[k]]
         IN  MonthlyFold(table, subs, k + 1,
                AddTo(totals, sub.currency,
                      calculateMonthlyEquivalent(sub.amount, sub.billingCycle)))

getMonthlyTotal(table) ==
    LET totals == MonthlyFold(table, getActiveSubscriptions(table), 1, <<>>)
    IN  [k \in DOMAIN totals |->
            [currency |-> totals[k].currency, total |-> Round2(totals[k].total)]]

\* twelve times the sum of the monthly equivalents, rounded once
getYearlyTotal_FromSum(table) ==
    LET totals == MonthlyFold(table, getActiveSubscriptions(table), 1, <<>>)
    IN  [k \in DOMAIN totals |->
            [currency |-> totals[k].currency,
             total |-> Round2(totals[k].total * 12)]]

\* monthlyTotals.map(({currency, total}) => Math.round(total * 12 * 100) / 100):
\* total is the rounded monthly total, here in cents
getYearlyTotal(table) ==
    LET monthlyTotals == getMonthlyTotal(table)
    IN  [k \in DOMAIN monthlyTotals |->
            [currency |-> monthlyTotals[k].currency,
             total |-> Round2(monthlyTotals[k].total * 12 * Scale)]]

\* SELECT * FROM subscriptions ORDER BY next_billing_date ASC
getAllSubscriptions(table) == OrderByDate(table, DOMAIN table)

\* the ranking taken on the raw amounts, whatever the cycle
RECURSIVE SortByMonthlyDesc_ByAmount(_, _)
SortByMonthlyDesc_ByAmount(table, subs) ==
    IF subs = <<>> THEN <<>>
    ELSE LET top == CHOOSE k \in DOMAIN subs :
                        /\ \A j \in DOMAIN subs :
                              table[subs[k]].amount >= table[subs[j]].amount
                        /\ \A j \in 1 .. k - 1 :
                              table[subs[j]].amount < table[subs[k]].amount
         IN  <<subs[top]>> \o
             SortByMonthlyDesc_ByAmount(table,
                 SubSeq(subs, 1, top - 1) \o SubSeq(subs, top + 1, Len(subs)))

\* withMonthly.sort((a, b) => b.monthlyAmount - a.monthlyAmount): a stable
\* sort, equal amounts stay in the order of the query
RECURSIVE SortByMonthlyDesc(_, _)
SortByMonthlyDesc(table, subs) ==
    IF subs = <<>> THEN <<>>
    ELSE LET monthlyAmount(i) ==
                calculateMonthlyEquivalent(table[i].amount, table[i].billingCycle)
             top == CHOOSE k \in DOMAIN subs :
                        /\ \A j \in DOMAIN subs :
                              monthlyAmount(subs[k]) >= monthlyAmount(subs[j])
                        /\ \A j \in 1 .. k - 1 :
                              monthlyAmount(subs[j]) < monthlyAmount(subs[k])
         IN  <<subs[top]>> \o
             SortByMonthlyDesc(table,
                 SubSeq(subs, 1, top - 1) \o SubSeq(subs, top + 1, Len(subs)))

\* getStats: subscriptions are named by their ids, null is 0; avg is
\* Math.round(total / n * 100) / 100 of the rounded monthly total, in cents
getStats(table) ==
    LET all      == getAllSubscriptions(table)
        active   == SelectSeq(all, LAMBDA i : table[i].isActive)
        inactive == SelectSeq(all, LAMBDA i : ~table[i].isActive)
        sorted   == SortByMonthlyDesc(table, active)
        totals   == getMonthlyTotal(table)
        n(c)     == Len(SelectSeq(active, LAMBDA i : table[i].currency = c))
    IN  [totalActive   |-> Len(active),
         totalInactive |-> Len(inactive),
         mostExpensive |-> IF Len(sorted) > 0 THEN sorted[1] ELSE 0,
         cheapest      |-> IF Len(sorted) > 0 THEN sorted[Len(sorted)] ELSE 0,
         avgMonthly    |->
            [k \in DOMAIN totals |->
                [currency |-> totals[k].currency,
                 avg |-> IF n(totals[k].currency) > 0
                         THEN (2 * totals[k].total + n(totals[k].currency))
                                \div (2 * n(totals[k].currency))
                         ELSE 0]]]

\* the bucket getUpcomingGrouped pushes a subscription to
BucketOf(diff) ==
    IF diff < 0 THEN "overdue"
    ELSE IF diff = 0 THEN "today"
    ELSE IF diff = 1 THEN "tomorrow"
    ELSE IF diff <= 7 THEN "thisWeek"
    ELSE IF diff <= 14 THEN "nextWeek"
    ELSE "later"

Buckets == {"overdue", "today", "tomorrow", "thisWeek", "nextWeek", "later"}

RECURSIVE GroupFold(_, _, _, _, _)
GroupFold(table, subs, k, today, acc) ==
    IF k > Len(subs) THEN acc
    ELSE LET billingDate == parseISO(table[subs[k]].nextBillingDate)
             diff == (billingDate - today) \div 24
         IN  GroupFold(table, subs, k + 1, today,
                [acc EXCEPT ![BucketOf(diff)] = Append(@, subs[k])])

\* the difference taken from new Date() instead of its startOfDay
getUpcomingGrouped_FromNow(table) ==
    GroupFold(table, getActiveSubscriptions(table), 1, now,
              [b \in Buckets |-> <<>>])

getUpcomingGrouped(table) ==
    GroupFold(table, getActiveSubscriptions(table), 1, startOfDay(now),
              [b \in Buckets |-> <<>>])

MaxQueryRows == 2

\* rows as updateSubscription can leave them: any date, either flag, no
\* reminder offsets and so no handles
QueryRow(date, active, amount, currency, cycle) ==
    [name |-> "Netflix", amount |-> amount, currency |-> currency,
     billingCycle |-> cycle, nextBillingDate |-> date, startDate |-> date,
     categoryId |-> "streaming", notes |-> "", isActive |-> active,
     reminderDays |-> <<>>, notificationIds |-> <<>>,
     createdAt |-> now, updatedAt |-> now]

QueryDates ==
    {Day0 - 1, Day0, Day0 + 1, Day0 + 2, Day0 + 7, Day0 + 8, Day0 + 14, Day0 + 15}

QueryRows ==
    {QueryRow(d, a, 999, "USD", "monthly") : d \in QueryDates, a \in BOOLEAN}
    \cup UNION {{QueryRow(Day0 + 2, a, m, c, cycle) :
                    a \in BOOLEAN, m \in {999, 1000}, c \in {"USD", "EUR"}} :
                 cycle \in BillingCycle}

InitQuery ==
    /\ tz \in TimeZones
    /\ now \in Instants
    /\ build = "plain"
    /\ expoGoAndroid = FALSE
    /\ db \in UNION {[1 .. n -> QueryRows] : n \in 0 .. MaxQueryRows}
    /\ scheduled = {}
    /\ lastOp = [op |-> "none", id |-> 0, ok |-> TRUE, input |-> <<>>,
                 calls |-> <<>>]
    /\ tasks = <<>>
    /\ view = [fn |-> "none"]
    /\ store = [subscriptions |-> <<>>, isLoading |-> FALSE, error |-> ""]

CallGetMonthlyTotal ==
    /\ view' = [fn |-> "getMonthlyTotal", value |-> getMonthlyTotal(db)]
    /\ UNCHANGED <<tz, now, build, expoGoAndroid, store, db, scheduled, lastOp, tasks>>

CallGetUpcomingGrouped ==
    /\ view' = [fn |-> "getUpcomingGrouped", value |-> getUpcomingGrouped(db)]
    /\ UNCHANGED <<tz, now, build, expoGoAndroid, store, db, scheduled, lastOp, tasks>>

CallGetYearlyTotal ==
    /\ view' = [fn |-> "getYearlyTotal", value |-> getYearlyTotal(db)]
    /\ UNCHANGED <<tz, now, build, expoGoAndroid, store, db, scheduled, lastOp, tasks>>

CallGetStats ==
    /\ view' = [fn |-> "getStats", value |-> getStats(db)]
    /\ UNCHANGED <<tz, now, build, expoGoAndroid, store, db, scheduled, lastOp, tasks>>

NextQuery ==
    \/ CallGetMonthlyTotal
    \/ CallGetUpcomingGrouped
    \/ CallGetYearlyTotal
    \/ CallGetStats

SpecQuery == InitQuery /\ [][NextQuery]_vars

-----------------------------------------------------------------------------
(* Reports of the dashboard: spending of a calendar month, bills due within *)
(* a number of days, spending by category                                   *)

\* new Date(year, month, 1): local midnight; month counts from 0 and a month
\* of 12 is January of the next year
FirstOfMonth(year, month) ==
    LET months == year * 12 + month
    IN  DaysFromCivil(months \div 12, (months % 12) + 1, 1) * 24 - tz

\* the range test with the last day of the month left out
WithinMonth_OpenEnd(billingDate, startOfMonth, endOfMonth) ==
    billingDate >= startOfMonth /\ billingDate < endOfMonth

\* billingDate >= startOfMonth && billingDate <= endOfMonth
WithinMonth(billingDate, startOfMonth, endOfMonth) ==
    billingDate >= startOfMonth /\ billingDate <= endOfMonth

\* byCurrency[sub.currency].total += sub.amount; ...subscriptions.push(sub)
RECURSIVE SpendingFold(_, _, _, _, _, _)
SpendingFold(table, subs, k, startOfMonth, endOfMonth, acc) ==
    IF k > Len(subs) THEN acc
    ELSE LET sub == table[subs[k]]
             hit == WithinMonth(parseISO(sub.nextBillingDate), startOfMonth, endOfMonth)
             old == \E j \in DOMAIN acc : acc[j].currency = sub.currency
             new == IF ~hit THEN acc
                    ELSE IF old
                    THEN [j \in DOMAIN acc |->
                            IF acc[j].currency = sub.currency
                            THEN [acc[j] EXCEPT !.total = @ + sub.amount * Scale,
                                                !.subscriptions = Append(@, subs[k])]
                            ELSE acc[j]]
                    ELSE Append(acc, [currency |-> sub.currency,
                                      total |-> sub.amount * Scale,
                                      subscriptions |-> <<subs[k]>>])
         IN  SpendingFold(table, subs, k + 1, startOfMonth, endOfMonth, new)

\* getActualMonthlySpending(year?, month?): args holds the arguments that
\* were passed; the others default to the local year and month of now
getActualMonthlySpending(table, args) ==
    LET local        == CivilFromDays(LocalDay(now))
        targetYear   == IF "year" \in DOMAIN args THEN args.year ELSE local.y
        targetMonth  == IF "month" \in DOMAIN args THEN args.month ELSE local.m - 1
        startOfMonth == FirstOfMonth(targetYear, targetMonth)
        endOfMonth   == subDays(FirstOfMonth(targetYear, targetMonth + 1), 1)
        byCurrency   == SpendingFold(table, getActiveSubscriptions(table), 1,
                                     startOfMonth, endOfMonth, <<>>)
    IN  [k \in DOMAIN byCurrency |->
            [byCurrency[k] EXCEPT !.total = Round2(@)]]

\* getUpcomingBills(days): the cut-off is the UTC date of now plus days
getUpcomingBills(table, days) ==
    LET futureDate == toISODate(addDays(now, days))
    IN  OrderByDate(table, {i \in DOMAIN table :
            table[i].isActive /\ table[i].nextBillingDate <= futureDate})

\* one slot for a category, whatever the currency
SameSlot_AnyCurrency(e, sub) == e.categoryId = sub.categoryId

\* byCategory[sub.categoryId][sub.currency]: the slot a subscription adds to
SameSlot(e, sub) == e.categoryId = sub.categoryId /\ e.currency = sub.currency

\* byCategory[categoryId][currency].monthly += monthly; .count += 1
RECURSIVE CategoryFold(_, _, _, _)
CategoryFold(table, subs, k, acc) ==
    IF k > Len(subs) THEN acc
    ELSE LET sub == table[subs[k]]
             monthly == calculateMonthlyEquivalent(sub.amount, sub.billingCycle)
             mine(e) == SameSlot(e, sub)
         IN  CategoryFold(table, subs, k + 1,
                IF \E j \in DOMAIN acc : mine(acc[j])
                THEN [j \in DOMAIN acc |->
                        IF mine(acc[j])
                        THEN [acc[j] EXCEPT !.monthly = @ + monthly, !.count = @ + 1]
                        ELSE acc[j]]
                ELSE Append(acc, [categoryId |-> sub.categoryId,
                                  currency |-> sub.currency,
                                  monthly |-> monthly, count |-> 1]))

\* Object.entries(byCategory), then Object.entries(currencies): the entries
\* of one category together, categories in the order they were first seen
RECURSIVE CategoryOrder(_, _)
CategoryOrder(entries, seen) ==
    IF \A j \in DOMAIN entries : entries[j].categoryId \in seen THEN <<>>
    ELSE LET first == CHOOSE j \in DOMAIN entries :
                        /\ entries[j].categoryId \notin seen
                        /\ \A i \in 1 .. j - 1 : entries[i].categoryId \in seen
             cat   == entries[first].categoryId
         IN  SelectSeq(entries, LAMBDA e : e.categoryId = cat)
                \o CategoryOrder(entries, seen \cup {cat})

\* the sum of an entry is in units of 1/1200 cent, its monthly in cents
getSpendingByCategory(table) ==
    LET result == CategoryOrder(
                      CategoryFold(table, getActiveSubscriptions(table), 1, <<>>), {})
    IN  [k \in DOMAIN result |-> [result[k] EXCEPT !.monthly = Round2(@)]]

MaxReportRows == 2

ReportRow(date, active, category, currency, cycle) ==
    [QueryRow(date, active, 1000, currency, cycle) EXCEPT !.categoryId = category]

ReportDates ==
    {DaysFromCivil(2025, 2, 28), DaysFromCivil(2025, 3, 1), Day0,
     DaysFromCivil(2025, 3, 17), DaysFromCivil(2025, 3, 18),
     DaysFromCivil(2025, 3, 31), DaysFromCivil(2025, 4, 1)}

ReportRows ==
    {ReportRow(d, a, "streaming", "USD", "monthly") : d \in ReportDates, a \in BOOLEAN}
    \cup UNION {{ReportRow(Day0 + 2, a, cat, c, cycle) :
                    a \in BOOLEAN, cat \in {"streaming", "music"}, c \in {"USD", "EUR"}} :
                 cycle \in {"monthly", "quarterly"}}

\* the device's zone and clock: 02:00 in UTC, 08:00 of the next morning in
\* UTC+10, 21:00 of the evening before in UTC-5
ReportClocks ==
    {[tz |-> 0, now |-> Day0 * 24 + 2],
     [tz |-> 10, now |-> Day0 * 24 + 22],
     [tz |-> 0 - 5, now |-> Day0 * 24 + 2]}

\* (year, month) as passed to getActualMonthlySpending; <<>>: none passed
ReportMonths ==
    {<<>>, [year |-> 2025, month |-> 1], [year |-> 2025, month |-> 2],
     [year |-> 2025, month |-> 3], [year |-> 2024, month |-> 11]}

ReportDays == {0, 7}

InitReport ==
    /\ \E c \in ReportClocks : tz = c.tz /\ now = c.now
    /\ build = "plain"
    /\ expoGoAndroid = FALSE
    /\ db \in UNION {[1 .. n -> ReportRows] : n \in 0 .. MaxReportRows}
    /\ scheduled = {}
    /\ lastOp = [op |-> "none", id |-> 0, ok |-> TRUE, input |-> <<>>,
                 calls |-> <<>>]
    /\ tasks = <<>>
    /\ view = [fn |-> "none"]
    /\ store = [subscriptions |-> <<>>, isLoading |-> FALSE, error |-> ""]

CallGetActualMonthlySpending ==
    \E args \in ReportMonths :
        /\ view' = [fn |-> "getActualMonthlySpending", args |-> args,
                    value |-> getActualMonthlySpending(db, args)]
        /\ UNCHANGED <<tz, now, build, expoGoAndroid, store, db, scheduled, lastOp, tasks>>

CallGetUpcomingBills ==
    \E days \in ReportDays :
        /\ view' = [fn |-> "getUpcomingBills", args |-> days,
                    value |-> getUpcomingBills(db, days)]
        /\ UNCHANGED <<tz, now, build, expoGoAndroid, store, db, scheduled, lastOp, tasks>>

CallGetSpendingByCategory ==
    /\ view' = [fn |-> "getSpendingByCategory", args |-> <<>>,
                value |-> getSpendingByCategory(db)]
    /\ UNCHANGED <<tz, now, build, expoGoAndroid, store, db, scheduled, lastOp, tasks>>

NextReport ==
    \/ CallGetActualMonthlySpending
    \/ CallGetUpcomingBills
    \/ CallGetSpendingByCategory

SpecReport == InitReport /\ [][NextReport]_vars

-----------------------------------------------------------------------------
(* useSubscriptionStore (src/src/stores/subscriptionStore.ts): the list of *)
(* subscriptions the screens show.  Every store function awaits one call   *)
(* of the service and then sets the list; other calls may run between the  *)
(* two.  The service call itself is taken as one step here.                *)

\* the Subscription object the service hands out for a row, cut down to the
\* two fields the store looks at
AsSubscription(table, id) ==
    [id |-> id, nextBillingDate |-> table[id].nextBillingDate]

\* .sort((a, b) => a.nextBillingDate.localeCompare(b.nextBillingDate)):
\* a stable sort
RECURSIVE SortByDate(_)
SortByDate(list) ==
    IF list = <<>> THEN <<>>
    ELSE LET first == CHOOSE k \in DOMAIN list :
                        /\ \A j \in DOMAIN list :
                              list[k].nextBillingDate <= list[j].nextBillingDate
                        /\ \A j \in 1 .. k - 1 :
                              list[j].nextBillingDate > list[k].nextBillingDate
         IN  <<list[first]>> \o
             SortByDate(SubSeq(list, 1, first - 1) \o SubSeq(list, first + 1, Len(list)))

StoreCreateInputs ==
    {i \in CreateInputs :
        i.isActive /\ i.billingCycle = "weekly" /\ i.nextBillingDate = Day0 + 2}

\* a change of date, which moves the element in the list
StoreUpdateInputs == {[nextBillingDate |-> Day0 + 3]}

\* which schedule call rejects (0: none; 3: the one for the offset of 1
\* day, the only one in the future here) and which cancel call
StoreScheduleFailAt == {0, 3}

StoreCancelFailAt == {0, 1}

\* a store function suspended at its await, holding what the service returned
Pending(op, id, ok, result) ==
    [pc |-> "set", op |-> op, id |-> id, ok |-> ok, result |-> result]

\* ids in use: of a row, of a live notification, of an element of the list
\* or of an object a suspended store function holds
StoreFreeIds ==
    (1 .. MaxRows) \
        (DOMAIN db \cup {n.sub : n \in scheduled}
            \cup {store.subscriptions[k].id : k \in DOMAIN store.subscriptions}
            \cup UNION {IF tasks[t].pc = "idle" THEN {}
                        ELSE {tasks[t].result[k].id : k \in DOMAIN tasks[t].result}
                                \cup {tasks[t].id} : t \in Tasks})

\* the service call a store function awaits: what it does to the table and
\* the scheduler; a rejection leaves the store function (no set is reached)
Awaited(t, op, id, o, result) ==
    /\ Cardinality(HandlesOf(o.db, o.scheduled)) <= MaxHandles
    /\ db' = o.db
    /\ scheduled' = o.scheduled
    /\ tasks' = [tasks EXCEPT ![t] = IF o.ok THEN Pending(op, id, TRUE, result)
                                     ELSE Idle]
    /\ UNCHANGED <<tz, now, build, expoGoAndroid, lastOp, view, store>>

\* loadSubscriptions: set({isLoading: true, error: null}), then
\* await getAllSubscriptions(), which may reject
LoadCall(t) ==
    \E ok \in BOOLEAN :
        /\ tasks[t].pc = "idle"
        /\ store' = [store EXCEPT !.isLoading = TRUE, !.error = ""]
        /\ tasks' = [tasks EXCEPT ![t] =
                Pending("load", 0, ok,
                    IF ok THEN LET all == getAllSubscriptions(db)
                               IN  [k \in DOMAIN all |-> AsSubscription(db, all[k])]
                    ELSE <<>>)]
        /\ UNCHANGED <<tz, now, build, expoGoAndroid, db, scheduled, lastOp, view>>

\* addSubscription: const subscription = await createSubscription(data)
AddCall(t) ==
    \E input \in StoreCreateInputs, sf \in StoreScheduleFailAt :
        /\ tasks[t].pc = "idle"
        /\ StoreFreeIds # {}
        /\ LET id == CHOOSE i \in StoreFreeIds : \A j \in StoreFreeIds : i <= j
               o  == createSubscription(id, input, sf)
           IN  Awaited(t, "create", id, o,
                       IF o.ok THEN <<AsSubscription(o.db, id)>> ELSE <<>>)

\* updateSubscription: const updated = await updateSubscription(id, data)
UpdateCall(t) ==
    \E id \in 1 .. MaxRows, data \in StoreUpdateInputs,
       cf \in StoreCancelFailAt, sf \in StoreScheduleFailAt :
        /\ tasks[t].pc = "idle"
        /\ cf = 0 \/ sf = 0
        /\ LET o == updateSubscription(id, data, cf, sf)
           IN  Awaited(t, "update", id, o,
                       IF o.ok THEN <<AsSubscription(o.db, id)>> ELSE <<>>)

\* deleteSubscription: await deleteSubscription(id)
DeleteCall(t) ==
    \E id \in 1 .. MaxRows, cf \in StoreCancelFailAt :
        /\ tasks[t].pc = "idle"
        /\ Awaited(t, "delete", id, deleteSubscription(id, cf), <<>>)

\* the set(...) that follows the await in each store function
StoreSet(t) ==
    LET f    == tasks[t]
        list == store.subscriptions
    IN  /\ f.pc = "set"
        /\ store' =
             CASE f.op = "load" ->
                    IF f.ok
                    THEN [store EXCEPT !.subscriptions = f.result, !.isLoading = FALSE]
                    ELSE [store EXCEPT !.error = "rejected", !.isLoading = FALSE]
               [] f.op = "create" ->
                    [store EXCEPT !.subscriptions = SortByDate(list \o f.result)]
               [] f.op = "update" ->
                    [store EXCEPT !.subscriptions =
                        SortByDate([k \in DOMAIN list |->
                            IF list[k].id = f.id THEN f.result[1] ELSE list[k]])]
               [] f.op = "delete" ->
                    [store EXCEPT !.subscriptions =
                        SelectSeq(list, LAMBDA s : s.id # f.id)]
        /\ tasks' = [tasks EXCEPT ![t] = Idle]
        /\ UNCHANGED <<tz, now, build, expoGoAndroid, db, scheduled, lastOp, view>>

InitStore ==
    /\ tz = 0
    /\ now \in Instants
    /\ build = "plain"
    /\ expoGoAndroid = FALSE
    /\ db = <<>>
    /\ scheduled = {}
    /\ lastOp = [op |-> "none", id |-> 0, ok |-> TRUE, input |-> <<>>,
                 calls |-> <<>>]
    /\ tasks = [t \in Tasks |-> Idle]
    /\ view = [fn |-> "none"]
    /\ store = [subscriptions |-> <<>>, isLoading |-> FALSE, error |-> ""]

NextStore ==
    \E t \in Tasks :
        \/ LoadCall(t)
        \/ AddCall(t)
        \/ UpdateCall(t)
        \/ DeleteCall(t)
        \/ StoreSet(t)

SpecStore == InitStore /\ [][NextStore]_vars

-----------------------------------------------------------------------------
(* The date-cycle calculator called on its own *)

Jan31 == DaysFromCivil(2025, 1, 31)

Jan31Leap == DaysFromCivil(2024, 1, 31)

Feb29 == DaysFromCivil(2024, 2, 29)

Nov30 == DaysFromCivil(2024, 11, 30)

CalcDates == {Jan15, Jan31, Jan31Leap, Feb29, Nov30, Day0 - 7, Day0, Day0 + 2}

\* getNextBillingDate(parseISO(d), cycle): the Date it returns
CallGetNextBillingDate ==
    \E d \in CalcDates, cycle \in BillingCycle :
        /\ view' = [fn |-> "getNextBillingDate", currentDate |-> parseISO(d),
                    cycle |-> cycle,
                    value |-> getNextBillingDate(parseISO(d), cycle)]
        /\ UNCHANGED <<tz, now, build, expoGoAndroid, store, db, scheduled, lastOp, tasks>>

\* advanceToFuture(dateStr, cycle), one loop test at a time:
\*   let date = parseISO(dateStr); const today = startOfDay(new Date());
AdvanceStart ==
    \E d \in CalcDates, cycle \in BillingCycle :
        /\ view' = [fn |-> "advanceToFuture", pc |-> "while", dateStr |-> d,
                    cycle |-> cycle, date |-> parseISO(d),
                    today |-> startOfDay(now), steps |-> 0, value |-> 0]
        /\ UNCHANGED <<tz, now, build, expoGoAndroid, store, db, scheduled, lastOp, tasks>>

\*   while (isBefore(date, today)) date = getNextBillingDate(date, cycle);
AdvanceIterate ==
    /\ view.fn = "advanceToFuture" /\ view.pc = "while"
    /\ isBefore(view.date, view.today)
    /\ view' = [view EXCEPT !.date = getNextBillingDate(view.date, view.cycle),
                            !.steps = @ + 1]
    /\ UNCHANGED <<tz, now, build, expoGoAndroid, store, db, scheduled, lastOp, tasks>>

\*   return date.toISOString().split('T')[0];
AdvanceReturn ==
    /\ view.fn = "advanceToFuture" /\ view.pc = "while"
    /\ ~isBefore(view.date, view.today)
    /\ view' = [view EXCEPT !.pc = "returned", !.value = toISODate(view.date)]
    /\ UNCHANGED <<tz, now, build, expoGoAndroid, store, db, scheduled, lastOp, tasks>>

\* amounts in cents; the function takes any number
CalcAmounts == {0 - 500, 0, 1, 999, 1000}

CallCalculateMonthlyEquivalent ==
    \E amount \in CalcAmounts, cycle \in BillingCycle :
        /\ view' = [fn |-> "calculateMonthlyEquivalent", amount |-> amount,
                    cycle |-> cycle,
                    value |-> calculateMonthlyEquivalent(amount, cycle)]
        /\ UNCHANGED <<tz, now, build, expoGoAndroid, store, db, scheduled, lastOp, tasks>>

NextCalc ==
    \/ CallGetNextBillingDate
    \/ AdvanceStart
    \/ AdvanceIterate
    \/ AdvanceReturn
    \/ CallCalculateMonthlyEquivalent

SpecCalc == Init /\ [][NextCalc]_vars

-----------------------------------------------------------------------------
(* Vocabulary of the properties *)

Range(seq) == {seq[k] : k \in DOMAIN seq}

IsSchedule(c) == c.kind = "schedule"

IsCancel(c) == c.kind = "cancel"

\* the offsets of a subscription whose trigger instant is strictly after now
IsFuture(sub, off) == subDays(parseISO(sub.nextBillingDate), off) > now

FutureOffsets(sub) == SelectSeq(sub.reminderDays, LAMBDA off : IsFuture(sub, off))

Offsets(calls) == [k \in DOMAIN calls |-> calls[k].off]

Handles(calls) == [k \in DOMAIN calls |-> calls[k].h]

\* the requests made to the external scheduler, and those it accepted
Requested(calls) == SelectSeq(calls, IsSchedule)

Accepted(calls) == SelectSeq(calls, LAMBDA c : IsSchedule(c) /\ c.ok)

Live == {n.h : n \in scheduled}

\* the calendar date one cycle after calendar date d
NextOccurrence(d, cycle) == LocalDay(getNextBillingDate(parseISO(d), cycle))

RECURSIVE NthOccurrence(_, _, _)
NthOccurrence(d, cycle, k) ==
    IF k = 0 THEN d ELSE NthOccurrence(NextOccurrence(d, cycle), cycle, k - 1)

\* the row a call has just worked on
Row == db[lastOp.id]

Touched(ops) == lastOp.op \in ops /\ lastOp.id \in DOMAIN db

-----------------------------------------------------------------------------
(* Properties *)

\* C1: an updateSubscription or markAsPaid that changes nextBillingDate or
\* reminderDays or flips isActive has every handle the row stored before the
\* call cancelled in the external scheduler before it schedules any new
\* notification, and it schedules and stores new handles only if the row is
\* active once the field changes are persisted.
C1_Changes(id) ==
    \/ db'[id].nextBillingDate # db[id].nextBillingDate
    \/ db'[id].reminderDays # db[id].reminderDays
    \/ db'[id].isActive # db[id].isActive

C1_Step ==
    LET id    == lastOp'.id
        calls == lastOp'.calls
    IN  (/\ lastOp'.op \in {"update", "markAsPaid"}
         /\ id \in DOMAIN db /\ id \in DOMAIN db'
         /\ C1_Changes(id))
        => /\ \A j \in DOMAIN calls :
                IsSchedule(calls[j]) =>
                    \A h \in Range(db[id].notificationIds) :
                        \E i \in 1 .. j - 1 : calls[i] = Call("cancel", h, 0, TRUE)
           /\ Requested(calls) # <<>> => db'[id].isActive

C1_CancelAllBeforeReschedule == [][C1_Step]_vars

\* C2: right after a createSubscription, updateSubscription or markAsPaid
\* completes, the persisted nextBillingDate of the row is not before today.
C2_NeverPersistedInThePast ==
    (Touched({"create", "update", "markAsPaid"}) /\ lastOp.ok)
        => Row.nextBillingDate >= Today

\* C3: every persisted row has at most as many notification handles as it
\* has reminder offsets.
C3_HandlesWithinOffsets ==
    \A id \in DOMAIN db : Len(db[id].notificationIds) <= Len(db[id].reminderDays)

\* C4: an update that makes an active row inactive leaves none of the row's
\* former handles live and an empty persisted handle list; an update that
\* makes an inactive row active stores the handles it has scheduled.
C4_Step ==
    LET id == lastOp'.id
    IN  (/\ lastOp'.op = "update" /\ lastOp'.ok
         /\ id \in DOMAIN db /\ id \in DOMAIN db')
        => /\ (db[id].isActive /\ ~db'[id].isActive)
                => /\ Range(db[id].notificationIds) \cap {n.h : n \in scheduled'} = {}
                   /\ db'[id].notificationIds = <<>>
           /\ (~db[id].isActive /\ db'[id].isActive)
                => /\ db'[id].notificationIds = Handles(Accepted(lastOp'.calls))
                   /\ Range(db'[id].notificationIds) \subseteq {n.h : n \in scheduled'}

C4_DeactivateClearsHandles == [][C4_Step]_vars

\* C5: markAsPaid moves nextBillingDate exactly one cycle on (monthly
\* 2025-01-15 becomes 2025-02-15), also when that is still before today,
\* leaves none of the old handles live, and stores the freshly scheduled
\* handles if the row is active and none otherwise.
C5_Step ==
    LET id == lastOp'.id
    IN  (/\ lastOp'.op = "markAsPaid" /\ lastOp'.ok
         /\ id \in DOMAIN db /\ id \in DOMAIN db')
        => /\ db'[id].nextBillingDate
                = NextOccurrence(db[id].nextBillingDate, db[id].billingCycle)
           /\ Range(db[id].notificationIds) \cap {n.h : n \in scheduled'} = {}
           /\ db'[id].notificationIds
                = IF db'[id].isActive THEN Handles(Accepted(lastOp'.calls)) ELSE <<>>

C5_MarkAsPaidOneStep == [][C5_Step]_vars

\* C6: a createSubscription whose input date is in the past persists
\* advanceToFuture(input date, cycle), and the row read back has a
\* nextBillingDate that is not before the day of creation.
C6_CreateRoundTrip ==
    (Touched({"create"}) /\ lastOp.input.nextBillingDate < Today)
        => /\ Row.nextBillingDate
                = advanceToFuture(lastOp.input.nextBillingDate,
                                  lastOp.input.billingCycle)
           /\ Row.nextBillingDate >= Today

\* C7: for every cycle and date d, advanceToFuture(d, cycle) is not before
\* today and is d moved on by a whole number of cycles.
MaxSteps == 3

AdvanceDates == CreateDates \cup {Day0 - 1, Day0, Day0 + 10}

C7_AdvanceOnGrid ==
    \A d \in AdvanceDates, cycle \in BillingCycle :
        /\ advanceToFuture(d, cycle) >= Today
        /\ \E k \in 0 .. MaxSteps :
                advanceToFuture(d, cycle) = NthOccurrence(d, cycle, k)

\* a create, update or markAsPaid that got as far as scheduleReminders(Row)
ScheduleRan ==
    /\ Touched({"create", "update", "markAsPaid"})
    /\ Row.isActive
    /\ ~Unsupported
    /\ ~(build = "plain" /\ \E c \in Range(lastOp.calls) : IsCancel(c) /\ ~c.ok)

\* C8: scheduleReminders asks the external scheduler for one notification
\* per offset whose trigger instant is strictly after now, in the order of
\* the offsets, without error, and returns one handle for each; with
\* reminderDays [7,3,1] and a billing date two days out it returns exactly
\* one handle, for the offset 1.
C8_ScheduleFutureOffsets ==
    ScheduleRan
        => /\ lastOp.ok
           /\ Offsets(Requested(lastOp.calls)) = FutureOffsets(Row)
           /\ Row.notificationIds = Handles(Requested(lastOp.calls))
           /\ (Row.reminderDays = <<7, 3, 1>> /\ Row.nextBillingDate = Today + 2)
                => /\ Len(Row.notificationIds) = 1
                   /\ Offsets(Requested(lastOp.calls)) = <<1>>

\* C9: when the external scheduler rejects the request for one offset,
\* scheduleReminders still asks for every later future offset, the call that
\* uses it completes, and the handles of all accepted requests are stored.
C9_ScheduleIsolatesFailures ==
    (ScheduleRan /\ \E c \in Range(lastOp.calls) : IsSchedule(c) /\ ~c.ok)
        => /\ lastOp.ok
           /\ \A off \in Range(FutureOffsets(Row)) :
                \E c \in Range(lastOp.calls) : IsSchedule(c) /\ c.off = off
           /\ Row.notificationIds = Handles(Accepted(lastOp.calls))

\* C10: cancelReminders asks the external scheduler to cancel every handle
\* of the list it is given, and a rejected cancellation neither stops the
\* later ones nor fails the caller.
C10_Step ==
    LET id    == lastOp'.id
        calls == lastOp'.calls
    IN  (/\ lastOp'.op \in {"update", "markAsPaid", "delete"}
         /\ id \in DOMAIN db
         /\ ~Unsupported)
        => /\ \A h \in Range(db[id].notificationIds) :
                \E c \in Range(calls) : IsCancel(c) /\ c.h = h
           /\ (\E c \in Range(calls) : IsCancel(c) /\ ~c.ok)
                => \A c \in Range(calls) : IsSchedule(c) => c.ok
           /\ (\A c \in Range(calls) : IsSchedule(c) => c.ok) => lastOp'.ok

C10_CancelBestEffort == [][C10_Step]_vars

\* C12: an updateSubscription or markAsPaid on an id that has no row fails,
\* writes no row and makes no call to the external scheduler.
C12_Step ==
    LET id == lastOp'.id
    IN  (lastOp'.op \in {"update", "markAsPaid"} /\ id \notin DOMAIN db)
        => /\ ~lastOp'.ok
           /\ lastOp'.calls = <<>>
           /\ db' = db
           /\ scheduled' = scheduled

C12_NotFoundLeavesAllUnchanged == [][C12_Step]_vars

C12_Witness ==
    /\ lastOp.op = "update"
    /\ lastOp.id \notin DOMAIN db
    /\ ~lastOp.ok
    /\ lastOp.input # <<>>

\* C13: deleteSubscription on an existing id resolves with the row removed
\* and none of its stored handles live in the external scheduler; on an id
\* without a row it resolves and changes neither the table nor the
\* scheduler, and makes no call.
C13_Step ==
    LET id == lastOp'.id
    IN  lastOp'.op = "delete"
        => IF id \in DOMAIN db
           THEN /\ lastOp'.ok
                /\ db' = Remove(db, id)
                /\ Range(db[id].notificationIds) \cap {n.h : n \in scheduled'} = {}
           ELSE /\ lastOp'.ok
                /\ lastOp'.calls = <<>>
                /\ db' = db
                /\ scheduled' = scheduled

C13_DeleteIdempotent == [][C13_Step]_vars

\* input that the service is to refuse: an empty name or an amount that is
\* not positive (every cycle and category the model passes in exists)
Invalid(input) == input.name = "" \/ input.amount <= 0

\* C14: a createSubscription with invalid input (empty name, amount <= 0)
\* fails, and persists and schedules nothing.
C14_Step ==
    (lastOp'.op = "create" /\ Invalid(lastOp'.input))
        => /\ ~lastOp'.ok
           /\ db' = db
           /\ scheduled' = scheduled

C14_CreateRejectsInvalid == [][C14_Step]_vars

\* C15: every persisted subscription has an amount greater than zero.
C15_AmountPositive == \A id \in DOMAIN db : db[id].amount > 0

\* C16: an updateSubscription on an existing row sets the fields given in
\* the partial, and leaves every other field of the row except updatedAt and
\* the handle list, every field of every other row, and always startDate
\* and createdAt, as they were.
C16_Step ==
    LET id      == lastOp'.id
        partial == lastOp'.input
    IN  (lastOp'.op = "update" /\ id \in DOMAIN db)
        => /\ DOMAIN db' = DOMAIN db
           /\ \A j \in DOMAIN db \ {id} : db'[j] = db[j]
           /\ \A f \in DOMAIN db[id] \ {"updatedAt", "notificationIds"} :
                db'[id][f] = IF f \in DOMAIN partial /\ f \in Settable
                             THEN partial[f] ELSE db[id][f]
           /\ db'[id].startDate = db[id].startDate
           /\ db'[id].createdAt = db[id].createdAt

C16_UpdateFrame == [][C16_Step]_vars

C16_Witness ==
    /\ lastOp.op = "update" /\ lastOp.ok
    /\ DOMAIN db = {1, 2}
    /\ "name" \in DOMAIN lastOp.input
    /\ db[lastOp.id].name = "Hulu"
    /\ db[lastOp.id].amount = 999
    /\ db[lastOp.id].isActive
    /\ \E j \in DOMAIN db : db[j].name = "Netflix" /\ db[j].currency = "USD"

\* calendar arithmetic, by the fields of a date: n months on, the day of the
\* month kept unless the target month is shorter
MonthsOn(d, n) ==
    LET c      == CivilFromDays(d)
        months == c.y * 12 + (c.m - 1) + n
        y2     == months \div 12
        m2     == (months % 12) + 1
    IN  [y |-> y2, m |-> m2,
         d |-> IF c.d > DaysInMonth(y2, m2) THEN DaysInMonth(y2, m2) ELSE c.d]

\* C17: getNextBillingDate adds 7 days for weekly, 1 calendar month for
\* monthly, 3 for quarterly and 12 for yearly, with the day of the month
\* clamped to the last day of a shorter target month: Jan 31 monthly is
\* Feb 28 (Feb 29 in a leap year), Jan 31 quarterly is Apr 30, Feb 29
\* yearly is Feb 28.
C17_NextBillingDateClamps ==
    view.fn = "getNextBillingDate"
        => LET d   == LocalDay(view.currentDate)
               res == LocalDay(view.value)
               on  == CASE view.cycle = "weekly"    -> CivilFromDays(d + 7)
                        [] view.cycle = "monthly"   -> MonthsOn(d, 1)
                        [] view.cycle = "quarterly" -> MonthsOn(d, 3)
                        [] view.cycle = "yearly"    -> MonthsOn(d, 12)
           IN  /\ CivilFromDays(res) = on
               /\ view.value = parseISO(res)
               /\ (d = Jan31 /\ view.cycle = "monthly")
                    => res = DaysFromCivil(2025, 2, 28)
               /\ (d = Jan31Leap /\ view.cycle = "monthly")
                    => res = DaysFromCivil(2024, 2, 29)
               /\ (d = Jan31 /\ view.cycle = "quarterly")
                    => res = DaysFromCivil(2025, 4, 30)
               /\ (d = Feb29 /\ view.cycle = "yearly")
                    => res = DaysFromCivil(2025, 2, 28)

C17_Witness ==
    /\ view.fn = "getNextBillingDate"
    /\ view.cycle = "quarterly"
    /\ LocalDay(view.currentDate) = Nov30
    /\ LocalDay(view.value) = DaysFromCivil(2025, 2, 28)

\* the number of cycles from calendar date d to the first date of d's
\* cycle that is not before today
RECURSIVE CyclesUntilToday(_, _)
CyclesUntilToday(d, cycle) ==
    IF d >= Today THEN 0 ELSE 1 + CyclesUntilToday(NextOccurrence(d, cycle), cycle)

\* the shortest a cycle can be, in days
ShortestCycle(cycle) ==
    CASE cycle = "weekly"    -> 7
      [] cycle = "monthly"   -> 28
      [] cycle = "quarterly" -> 89
      [] cycle = "yearly"    -> 365

\* C18: the loop of advanceToFuture never takes more getNextBillingDate
\* steps than there are cycles between d and today, a number bounded by
\* the distance in days over the cycle's shortest length; every step moves
\* the date on; and it returns after exactly that number of steps.
C18_AdvanceTerminates ==
    view.fn = "advanceToFuture"
        => /\ view.steps <= CyclesUntilToday(view.dateStr, view.cycle)
           /\ view.dateStr < Today
                => view.steps <= (Today - view.dateStr) \div ShortestCycle(view.cycle) + 1
           /\ getNextBillingDate(view.date, view.cycle) > view.date
           /\ view.pc = "returned"
                => /\ view.steps = CyclesUntilToday(view.dateStr, view.cycle)
                   /\ view.value = advanceToFuture(view.dateStr, view.cycle)
           /\ view.pc = "while" => ENABLED (AdvanceIterate \/ AdvanceReturn)

C18_Witness ==
    /\ view.fn = "advanceToFuture" /\ view.pc = "returned"
    /\ view.dateStr = Jan15 /\ view.cycle = "weekly"
    /\ view.steps = 8

\* the bucket a difference of whole days belongs to, by the ranges of C19
BucketFor(diffDays) ==
    CASE diffDays < 0         -> "overdue"
      [] diffDays = 0         -> "today"
      [] diffDays = 1         -> "tomorrow"
      [] diffDays \in 2 .. 7  -> "thisWeek"
      [] diffDays \in 8 .. 14 -> "nextWeek"
      [] diffDays > 14        -> "later"

\* the places of a result of getUpcomingGrouped that hold subscription i
PlacesOf(g, i) ==
    {<<b, k>> \in Buckets \X (1 .. Cardinality(DOMAIN db)) :
        k \in DOMAIN g[b] /\ g[b][k] = i}

\* C19: getUpcomingGrouped puts every active subscription in exactly one
\* bucket, the one of the number of days from today to its nextBillingDate
\* (<0 overdue, 0 today, 1 tomorrow, 2..7 thisWeek, 8..14 nextWeek, >14
\* later), and an inactive subscription in none; on 2025-03-10, 03-09 is
\* overdue, 03-10 today, 03-17 thisWeek and 03-18 nextWeek.
C19_UpcomingBuckets ==
    view.fn = "getUpcomingGrouped"
        => LET g == view.value
           IN  /\ DOMAIN g = Buckets
               /\ \A i \in DOMAIN db :
                    IF db[i].isActive
                    THEN /\ Cardinality(PlacesOf(g, i)) = 1
                         /\ \E p \in PlacesOf(g, i) :
                                p[1] = BucketFor(db[i].nextBillingDate - Today)
                    ELSE PlacesOf(g, i) = {}
               /\ \A i \in DOMAIN db :
                    (db[i].isActive /\ Today = DaysFromCivil(2025, 3, 10))
                        => LET d == db[i].nextBillingDate
                           IN  /\ d = DaysFromCivil(2025, 3, 9) => i \in Range(g.overdue)
                               /\ d = DaysFromCivil(2025, 3, 10) => i \in Range(g.today)
                               /\ d = DaysFromCivil(2025, 3, 17) => i \in Range(g.thisWeek)
                               /\ d = DaysFromCivil(2025, 3, 18) => i \in Range(g.nextWeek)

C19_Witness ==
    /\ view.fn = "getUpcomingGrouped"
    /\ tz = 10
    /\ DOMAIN db = {1, 2}
    /\ db[1].isActive /\ db[1].nextBillingDate = DaysFromCivil(2025, 3, 18)
    /\ db[2].isActive /\ db[2].nextBillingDate = DaysFromCivil(2025, 3, 17)
    /\ view.value.thisWeek = <<2>>
    /\ view.value.nextWeek = <<1>>

\* the sum of the monthly equivalents of the subscriptions in S
RECURSIVE SumMonthly(_)
SumMonthly(S) ==
    IF S = {} THEN 0
    ELSE LET i == CHOOSE i \in S : TRUE
         IN  calculateMonthlyEquivalent(db[i].amount, db[i].billingCycle)
                + SumMonthly(S \ {i})

ActiveIn(currency) ==
    {i \in DOMAIN db : db[i].isActive /\ db[i].currency = currency}

\* C20: getMonthlyTotal returns exactly one entry for each currency that
\* has an active subscription and none for any other; the total of an entry
\* is the sum of the monthly equivalents of the active subscriptions of that
\* currency alone, rounded to 2 decimals.
C20_MonthlyTotalPerCurrency ==
    view.fn = "getMonthlyTotal"
        => LET res == view.value
           IN  /\ \A i \in DOMAIN db :
                    db[i].isActive
                        => Cardinality({k \in DOMAIN res :
                                          res[k].currency = db[i].currency}) = 1
               /\ \A k \in DOMAIN res :
                    /\ ActiveIn(res[k].currency) # {}
                    /\ res[k].total = Round2(SumMonthly(ActiveIn(res[k].currency)))

C20_Witness ==
    /\ view.fn = "getMonthlyTotal"
    /\ DOMAIN db = {1, 2}
    /\ db[1].isActive /\ db[1].currency = "USD" /\ db[1].billingCycle = "weekly"
    /\ db[2].isActive /\ db[2].currency = "EUR" /\ db[2].billingCycle = "yearly"
    /\ db[1].amount = 999 /\ db[2].amount = 1000
    /\ Len(view.value) = 2
    /\ \E k \in DOMAIN view.value :
            view.value[k].currency = "USD" /\ view.value[k].total = 4326
    /\ \E k \in DOMAIN view.value :
            view.value[k].currency = "EUR" /\ view.value[k].total = 83

\* a call that has completed at least one of its awaited steps and has not
\* returned yet
Started(f) ==
    /\ f.pc # "idle"
    /\ f.pc # (IF f.op = "create" THEN "insert" ELSE "read")

\* C11: while a mutating call on a subscription id is between its first
\* and its last step (cancel the handles, persist the fields, schedule,
\* persist the handles), no other call on the same id takes a step, also
\* when that call was issued while the first was suspended at an await.
C11_Step ==
    \A t \in Tasks, u \in Tasks :
        (/\ t # u
         /\ Started(tasks[t])
         /\ tasks[u].pc # "idle"
         /\ tasks[u].id = tasks[t].id)
        => tasks'[u] = tasks[u]

C11_NoInterleaving == [][C11_Step]_vars

\* C21: for every table and every currency, the entry of getYearlyTotal is
\* the entry of getMonthlyTotal for that currency times 12, rounded to 2
\* decimals: it comes from the rounded monthly total, not from a sum of its
\* own.
C21_YearlyFromMonthly ==
    view.fn = "getYearlyTotal"
        => LET yearly  == view.value
               monthly == getMonthlyTotal(db)
           IN  /\ Len(yearly) = Len(monthly)
               /\ \A k \in DOMAIN yearly :
                    /\ yearly[k].currency = monthly[k].currency
                    /\ yearly[k].total = 12 * monthly[k].total

\* a yearly plan of 10.00: 0.83 a month after rounding, so 9.96 a year
C21_Witness ==
    /\ view.fn = "getYearlyTotal"
    /\ DOMAIN db = {1}
    /\ db[1].isActive /\ db[1].billingCycle = "yearly" /\ db[1].amount = 1000
    /\ view.value = <<[currency |-> db[1].currency, total |-> 996]>>

\* C23: mostExpensive of getStats is an active subscription whose monthly
\* equivalent no active subscription exceeds, cheapest one whose monthly
\* equivalent none undercuts; both are null when no subscription is active
\* and the same subscription when exactly one is; totalActive +
\* totalInactive is the number of stored subscriptions.
C23_StatsExtremes ==
    view.fn = "getStats"
        => LET s == view.value
               active == {i \in DOMAIN db : db[i].isActive}
               monthly(i) == calculateMonthlyEquivalent(db[i].amount, db[i].billingCycle)
           IN  /\ s.totalActive + s.totalInactive = Cardinality(DOMAIN db)
               /\ s.totalActive = Cardinality(active)
               /\ active = {} => s.mostExpensive = 0 /\ s.cheapest = 0
               /\ active # {} =>
                    /\ s.mostExpensive \in active
                    /\ s.cheapest \in active
                    /\ \A j \in active :
                          /\ monthly(s.mostExpensive) >= monthly(j)
                          /\ monthly(s.cheapest) <= monthly(j)
               /\ Cardinality(active) = 1 => s.mostExpensive = s.cheapest

\* 9.99 a week is more a month than 10.00 a month
C23_Witness ==
    /\ view.fn = "getStats"
    /\ DOMAIN db = {1, 2}
    /\ db[1].isActive /\ db[1].billingCycle = "monthly" /\ db[1].amount = 1000
    /\ db[2].isActive /\ db[2].billingCycle = "weekly" /\ db[2].amount = 999
    /\ view.value.mostExpensive = 2
    /\ view.value.cheapest = 1
    /\ view.value.totalActive = 2

\* the sum of the raw amounts of the subscriptions in S
RECURSIVE SumAmounts(_)
SumAmounts(S) ==
    IF S = {} THEN 0
    ELSE LET i == CHOOSE i \in S : TRUE
         IN  db[i].amount + SumAmounts(S \ {i})

\* the active subscriptions whose nextBillingDate is a day of the month the
\* call was made for: the one passed, or the current one
DueInTargetMonth(args) ==
    LET current == CivilFromDays(Today)
        year    == IF "year" \in DOMAIN args THEN args.year ELSE current.y
        month   == IF "month" \in DOMAIN args THEN args.month + 1 ELSE current.m
    IN  {i \in DOMAIN db :
            /\ db[i].isActive
            /\ CivilFromDays(db[i].nextBillingDate).y = year
            /\ CivilFromDays(db[i].nextBillingDate).m = month}

\* C22: getActualMonthlySpending(year, month) selects exactly the active
\* subscriptions whose nextBillingDate is a day of the target month, the
\* first and the last day included (the current month when none is passed);
\* it returns one entry for each currency among them, whose total is the sum
\* of their raw amounts and whose list holds exactly those subscriptions.
C22_ActualMonthlySpending ==
    view.fn = "getActualMonthlySpending"
        => LET res == view.value
               due == DueInTargetMonth(view.args)
               of(c) == {i \in due : db[i].currency = c}
           IN  /\ \A i \in due :
                    Cardinality({k \in DOMAIN res : res[k].currency = db[i].currency}) = 1
               /\ \A k \in DOMAIN res :
                    /\ of(res[k].currency) # {}
                    /\ res[k].total = SumAmounts(of(res[k].currency))
                    /\ Range(res[k].subscriptions) = of(res[k].currency)
                    /\ Len(res[k].subscriptions) = Cardinality(of(res[k].currency))

\* March 2025 with bills on its first and its last day, and one on 1 April
C22_Witness ==
    /\ view.fn = "getActualMonthlySpending"
    /\ view.args = [year |-> 2025, month |-> 2]
    /\ DOMAIN db = {1, 2}
    /\ db[1].isActive /\ db[1].nextBillingDate = DaysFromCivil(2025, 3, 31)
    /\ db[2].isActive /\ db[2].nextBillingDate = DaysFromCivil(2025, 3, 1)
    /\ view.value = <<[currency |-> "USD", total |-> 2000, subscriptions |-> <<2, 1>>]>>

\* C24: getUpcomingBills(days) returns exactly the active subscriptions
\* whose nextBillingDate is no later than today + days, overdue ones
\* included, in ascending order of nextBillingDate.
C24_UpcomingBills ==
    view.fn = "getUpcomingBills"
        => LET res == view.value
           IN  /\ Range(res) = {i \in DOMAIN db :
                                  /\ db[i].isActive
                                  /\ db[i].nextBillingDate <= Today + view.args}
               /\ \A j, k \in DOMAIN res :
                    j < k => /\ res[j] # res[k]
                             /\ db[res[j]].nextBillingDate <= db[res[k]].nextBillingDate

\* the active subscriptions of a category that are billed in a currency
ActiveOf(categoryId, currency) ==
    {i \in DOMAIN db :
        db[i].isActive /\ db[i].categoryId = categoryId /\ db[i].currency = currency}

\* C25 (as the code has it): getSpendingByCategory returns one entry for
\* each (categoryId, currency) pair that has an active subscription and none
\* for any other pair; the count of an entry is the number of active
\* subscriptions of its pair and its monthly value is the sum of their
\* monthly equivalents rounded to 2 decimals; the counts of all entries add
\* up to the number of active subscriptions.
C25_SpendingByCategoryRounded ==
    view.fn = "getSpendingByCategory"
        => LET res == view.value
               RECURSIVE Counts(_)
               Counts(k) == IF k = 0 THEN 0 ELSE res[k].count + Counts(k - 1)
           IN  /\ \A i \in DOMAIN db :
                    db[i].isActive
                        => Cardinality({k \in DOMAIN res :
                                /\ res[k].categoryId = db[i].categoryId
                                /\ res[k].currency = db[i].currency}) = 1
               /\ \A k \in DOMAIN res :
                    LET S == ActiveOf(res[k].categoryId, res[k].currency)
                    IN  /\ S # {}
                        /\ res[k].count = Cardinality(S)
                        /\ res[k].monthly = Round2(SumMonthly(S))
               /\ Counts(Len(res)) = Cardinality({i \in DOMAIN db : db[i].isActive})

\* C25 (as stated): the monthly value of every entry of
\* getSpendingByCategory is the sum of the monthly equivalents of the active
\* subscriptions of its (categoryId, currency) pair.
C25_SpendingByCategoryExact ==
    view.fn = "getSpendingByCategory"
        => \A k \in DOMAIN view.value :
              view.value[k].monthly * Scale
                  = SumMonthly(ActiveOf(view.value[k].categoryId, view.value[k].currency))

\* two quarterly plans of 10.00 in one category, in USD and in EUR: two
\* entries of 3.33 a month each
C25_Witness ==
    /\ view.fn = "getSpendingByCategory"
    /\ DOMAIN db = {1, 2}
    /\ \A i \in {1, 2} : db[i].isActive /\ db[i].billingCycle = "quarterly"
                            /\ db[i].categoryId = "music"
    /\ db[1].currency = "USD" /\ db[2].currency = "EUR"
    /\ view.value = <<[categoryId |-> "music", currency |-> "USD",
                       monthly |-> 333, count |-> 1],
                      [categoryId |-> "music", currency |-> "EUR",
                       monthly |-> 333, count |-> 1]>>

\* C26: calculateMonthlyEquivalent(amount, cycle) is amount * 4.33 for
\* weekly, amount for monthly, amount / 3 for quarterly and amount / 12 for
\* yearly, for every amount and each of the four cycles (the value is in
\* units of 1/1200 cent, the amount in cents).
C26_MonthlyEquivalent ==
    view.fn = "calculateMonthlyEquivalent"
        => LET a == view.amount
               v == view.value
           IN  CASE view.cycle = "weekly"    -> 100 * v = 433 * a * Scale
                 [] view.cycle = "monthly"   -> v = a * Scale
                 [] view.cycle = "quarterly" -> 3 * v = a * Scale
                 [] view.cycle = "yearly"    -> 12 * v = a * Scale

\* 9.99 a week is 43.2567 a month: 4325.67 cents, 5190804 / 1200
C26_Witness ==
    /\ view.fn = "calculateMonthlyEquivalent"
    /\ view.cycle = "weekly"
    /\ view.amount = 999
    /\ view.value = 5190804

\* the handles persisted in notificationIds, over all stored subscriptions
Stored ==
    UNION {Range(db[i].notificationIds) : i \in DOMAIN db}

\* C27: after any sequence of completed create, update, markAsPaid and
\* delete calls made one at a time, the handles stored in notificationIds
\* are exactly the notifications scheduled and not yet cancelled: no stored
\* handle is of a cancelled notification and no live notification is
\* without a row that stores it, also when a schedule or cancel call fails.
C27_HandlesMatchScheduler == Stored = Live

\* C28: in every time zone, advanceToFuture of a date that is today or later
\* returns that same calendar date after zero steps, and applying
\* advanceToFuture to any date it has returned gives that date again: the
\* parse as local midnight and the formatting through the UTC date never
\* move the calendar day.
C28_AdvanceKeepsFutureDate ==
    (view.fn = "advanceToFuture" /\ view.pc = "returned")
        => /\ view.dateStr >= Today => view.steps = 0 /\ view.value = view.dateStr
           /\ advanceToFuture(view.value, view.cycle) = view.value

\* C29: in every state reached when a create, update, markAsPaid or delete
\* has completed, every live notification is of a stored subscription that
\* is active: none is left for an inactive or a deleted subscription.
C29_NoReminderWithoutActiveRow ==
    \A n \in scheduled : n.sub \in DOMAIN db /\ db[n.sub].isActive

\* C30: after any sequence of loadSubscriptions, addSubscription,
\* updateSubscription and deleteSubscription the list of the store is in
\* ascending order of nextBillingDate and no two of its elements have the
\* same id.
C30_StoreSortedNoDuplicates ==
    LET list == store.subscriptions
    IN  \A j, k \in DOMAIN list :
            j < k => /\ list[j].nextBillingDate <= list[k].nextBillingDate
                     /\ list[j].id # list[k].id

====
